---- MODULE Spec2Model ----
(***************************************************************************)
(* Model of the summonerd ceremony coordinator                             *)
(* (tools/summonerd/src/coordinator.rs): the ParticipantQueue, the         *)
(* ContributionHandler worker and the Coordinator event loop, with the     *)
(* two capacity-1 channels between them.  Storage, Phase and Participant   *)
(* are external collaborators: the result of every call on them is chosen  *)
(* nondeterministically among the results its signature allows, and so is  *)
(* the await at which the contribution deadline elapses.  One attempt of   *)
(* the handler touches nothing the coordinator reads, so it is one step.   *)
(***************************************************************************)
EXTENDS Integers, Sequences, FiniteSets, TLC

\* ------------------------------------------------------------------ bounds
NumAddrs == 2
MaxBid == 2
MaxArrivals == 3

Addrs == 1..NumAddrs
Bids == 1..MaxBid
NoAddr == 0

VARIABLES
    participants,        \* Coordinator.participants: Address -> (Participant, Amount)
    want_contribution,   \* Coordinator::run local flag
    coord,               \* "running" | "error" | "panic": how Coordinator::run stands
    coordErr,            \* the error run returned, or the panic message
    start_contribution,  \* admission channel (capacity 1): sequence of (Address, Participant)
    done_contribution,   \* completion channel (capacity 1): number of pending ()
    hpc,                 \* ContributionHandler::run: "recv" | "contribute" | "ended"
    cur,                 \* the (who, participant) the handler is working on
    hres,                \* result of ContributionHandler::run once it has ended
    slot,                \* Storage: slot counter of the phase
    arrivals,            \* number of Arrival events processed (also the next handle id)
    att,                 \* history: the record of the handler's last attempt
    last,                \* history of the last coordinator iteration
    outstanding,         \* history: dispatches not yet followed by a processed Completion
    inflight             \* history: the (who, participant) dispatched and not yet completed

vars == <<participants, want_contribution, coord, coordErr, start_contribution,
          done_contribution, hpc, cur, hres, slot,
          arrivals, att, last, outstanding, inflight>>

handlerVars == <<hpc, cur, hres, att>>
storageVars == <<slot>>

\* ------------------------------------------------------------ small helpers
Range(s) == {s[i] : i \in 1..Len(s)}

Restrict(f, S) == [x \in S |-> f[x]]

\* A Participant handle: its address and the identity of the connection.
Participant(a, id) == [address |-> a, id |-> id]

NoOne == [who |-> NoAddr, id |-> 0]

\* --------------------------------------------------------- ParticipantQueue
\* ParticipantQueue::new
new == <<>>

\* ParticipantQueue::len
len(q) == Cardinality(DOMAIN q)

\* ParticipantQueue::bid
bid(q, address) == q[address].bid

\* add as it would be with HashMap::entry(..).or_insert(..): an entry already
\* present is kept
addKeepOld(q, participant, b) ==
    IF participant.address \in DOMAIN q THEN q
    ELSE [x \in DOMAIN q \cup {participant.address} |->
             IF x = participant.address THEN [p |-> participant, bid |-> b] ELSE q[x]]

\* ParticipantQueue::add: HashMap::insert replaces the entry of the key
add(q, participant, b) ==
    [x \in DOMAIN q \cup {participant.address} |->
        IF x = participant.address THEN [p |-> participant, bid |-> b] ELSE q[x]]

\* Participant::is_live as prune consults it: alive is the set of addresses
\* whose connection reports itself open at this call
is_live(address, alive) == address \in alive

\* prune as it would be if retain kept every entry
pruneKeepsAll(q, alive) == q

\* ParticipantQueue::prune
prune(q, alive) == Restrict(q, {x \in DOMAIN q : is_live(x, alive)})

\* remove as it would be if it only looked the entry up
removeNothing(q, address) == q

\* ParticipantQueue::remove: the map after the removal (the call returns None
\* exactly when address is not a key of q)
remove(q, address) == Restrict(q, DOMAIN q \ {address})

\* HashMap::keys: every iteration order of the keys is possible
keys(q) ==
    {s \in [1..len(q) -> DOMAIN q] : \A i, j \in 1..len(q) : i # j => s[i] # s[j]}

\* the sort key as it would be without cmp::Reverse
sortKeyNotReversed(q, addr) == q[addr].bid

\* the sort key of score: cmp::Reverse(bid); a smaller key sorts first
sortKey(q, addr) == 0 - q[addr].bid

\* slice::sort_by_cached_key: a stable sort by the key
RECURSIVE insertSorted(_, _, _)
insertSorted(q, s, a) ==
    IF s = <<>> THEN <<a>>
    ELSE IF sortKey(q, a) < sortKey(q, Head(s)) THEN <<a>> \o s
    ELSE <<Head(s)>> \o insertSorted(q, Tail(s), a)

RECURSIVE sort_by_cached_key(_, _)
sort_by_cached_key(q, s) ==
    IF s = <<>> THEN <<>>
    ELSE insertSorted(q, sort_by_cached_key(q, SubSeq(s, 1, Len(s) - 1)), s[Len(s)])

\* ParticipantQueue::score: the rankings it can return, one for every order
\* in which the map can yield its keys
score(q) == {sort_by_cached_key(q, ks) : ks \in keys(q)}

\* inform as it would be without its filter: everyone ranked is notified
informTargetsNoFilter(ranked, filter) == Range(ranked)

\* the addresses inform calls try_notify on
informTargets(ranked, filter) ==
    IF filter = NoAddr THEN Range(ranked) ELSE Range(ranked) \cap {filter}

\* ParticipantQueue::inform: failed is the set of addresses whose try_notify
\* returned Err
inform(q, ranked, filter, failed) ==
    Restrict(q, DOMAIN q \ (informTargets(ranked, filter) \cap failed))

\* ------------------------------------------------------ ContributionHandler
\* What participant.contribute can resolve to: Err(e), Ok(None), or
\* Ok(Some(c)) where c passes or fails P::validate against the root and
\* P::is_linked_to against the parent.
NoCandidate == [some |-> FALSE, wellformed |-> FALSE, linked |-> FALSE]

Candidates == {[some |-> TRUE, wellformed |-> w, linked |-> l] : w, l \in BOOLEAN}

ContributeResults ==
    {[err |-> TRUE, c |-> NoCandidate]}
    \cup {[err |-> FALSE, c |-> x] : x \in {NoCandidate} \cup Candidates}

\* the awaits of contribute_inner, in which the future can be suspended when
\* the deadline of contribute elapses
InnerAwaits == {"current_crs", "contribute", "fetch_root", "validate", "commit",
                "current_slot", "confirm", "strike"}

\* One attempt's environment: the result of every collaborator call, and the
\* await at which the deadline elapses ("never": the attempt finishes first).
Inputs ==
    [current_crs : BOOLEAN, contribute : ContributeResults, fetch_root : BOOLEAN,
     commit : BOOLEAN, current_slot : BOOLEAN, confirm : BOOLEAN,
     strike : BOOLEAN, deadline : InnerAwaits \cup {"never"}]

\* The record of one attempt: res is "Ok", "Err" or "Elapsed"; cause names the
\* call whose error is carried; strikes and commits count the calls that
\* reached storage; confirmed lists the slots sent by participant.confirm,
\* counted from the slot at the start of the attempt; received tells whether
\* the participant returned a candidate and good whether it validates and is
\* linked; elapsedAt tells whether the deadline hit while the participant's
\* contribute call was pending ("contribute"), at another await ("other") or
\* not at all ("").
Started == [res |-> "", cause |-> "", strikes |-> 0, commits |-> 0,
            confirmed |-> <<>>, received |-> FALSE, good |-> FALSE,
            elapsedAt |-> ""]

Elapsed(st, at) ==
    [st EXCEPT !.res = "Elapsed",
               !.elapsedAt = IF at = "contribute" THEN "contribute" ELSE "other"]

Failed(st, cause) == [st EXCEPT !.res = "Err", !.cause = cause]

\* the closure run by spawn_blocking: Some(contribution) or None
validated(c) == c.wellformed /\ c.linked

\* self.storage.strike(&contributor).await?; Ok(())
strike(st, ok) ==
    IF ok THEN [st EXCEPT !.res = "Ok", !.strikes = @ + 1]
    ELSE Failed(st, "strike")

\* contribute_inner from the commit on: the candidate was validated
commitAndConfirm(i, st) ==
    IF i.deadline = "commit" THEN Elapsed(st, "commit")
    ELSE IF ~i.commit THEN Failed(st, "commit_contribution")
    ELSE LET committed == [st EXCEPT !.commits = @ + 1] IN
    IF i.deadline = "current_slot" THEN Elapsed(committed, "current_slot")
    ELSE IF ~i.current_slot THEN Failed(committed, "current_slot")
    ELSE IF i.deadline = "confirm" THEN Elapsed(committed, "confirm")
    ELSE IF ~i.confirm THEN Failed(committed, "participant confirm")
    ELSE [committed EXCEPT !.res = "Ok",
                           !.confirmed = Append(@, committed.commits)]

\* contribute_inner at its tail: STRIKE (invalid or partial contribution)
strikeInvalid(i, st) ==
    IF i.deadline = "strike" THEN Elapsed(st, "strike")
    ELSE strike(st, i.strike)

\* ContributionHandler::contribute_inner
contribute_inner(i) ==
    IF i.deadline = "current_crs" THEN Elapsed(Started, "current_crs")
    ELSE IF ~i.current_crs THEN Failed(Started, "current_crs")
    ELSE IF i.deadline = "contribute" THEN Elapsed(Started, "contribute")
    ELSE IF i.contribute.err THEN Failed(Started, "participant contribute")
    ELSE LET maybe == i.contribute.c
             got == [Started EXCEPT !.received = maybe.some,
                                    !.good = maybe.some /\ validated(maybe)]
         IN
    IF ~maybe.some THEN strikeInvalid(i, got)
    ELSE IF i.deadline = "fetch_root" THEN Elapsed(got, "fetch_root")
    ELSE IF ~i.fetch_root THEN Failed(got, "fetch_root")
    ELSE IF i.deadline = "validate" THEN Elapsed(got, "validate")
    ELSE IF validated(maybe) THEN commitAndConfirm(i, got)
    ELSE strikeInvalid(i, got)

\* ContributionHandler::contribute: the match on the timeout's result
contribute(i) ==
    LET r == contribute_inner(i) IN
    IF r.res = "Elapsed" THEN strike(r, i.strike) ELSE r

\* every way one attempt can go
Runs == {contribute(i) : i \in Inputs}

\* ------------------------------------------------------------- Coordinator
NoEvent == [event |-> "none", new |-> NoAddr, closed |-> "", ranked |-> <<>>,
            leader |-> 0, notified |-> {}, failed |-> {}, wanted |-> FALSE,
            dispatched |-> NoAddr, sendFound |-> 0]

\* the loop as it would be without step 6
wantStaysTrue == TRUE

\* step 6 of the loop: want_contribution = false after a dispatch
wantAfterDispatch == FALSE

\* the loop as it would be if it went on after the handler's end
ignoreHandlerFinished(why) == [coord |-> "running", err |-> ""]

\* the Err Coordinator::run returns on Event::ContributionHandlerFinished(why)
onHandlerFinished(why) ==
    [coord |-> "error",
     err |-> IF why = "Ok" THEN "contribution handler finished with no reason"
             ELSE why]

\* Steps 2-6 of one loop iteration, after the event was taken: q0 is the
\* queue after step 1, filter is maybe_new_address, alive the addresses whose
\* connection is_live, ranked what score returns, failed the addresses whose
\* try_notify fails, and open whether the receiving end of the admission
\* channel still exists.
Iterate(q0, want, filter, alive, ranked, failed, open) ==
    LET q1 == prune(q0, alive)
        idle == [participants |-> q1, want |-> want, coord |-> "running",
                 err |-> "", ranked |-> ranked, leader |-> 0, notified |-> {},
                 wanted |-> want, dispatched |-> NoOne]
    IN  IF ranked = <<>> THEN idle
        ELSE
          LET contributor == ranked[1]
              contributor_bid == bid(q1, contributor)
              q2 == inform(q1, ranked, filter, failed)
              informed == [idle EXCEPT !.participants = q2,
                                       !.leader = contributor_bid,
                                       !.notified = informTargets(ranked, filter)]
          IN  IF ~want THEN informed
              ELSE IF contributor \notin DOMAIN q2
                THEN [informed EXCEPT !.coord = "panic",
                                      !.err = "the selected contributor exists"]
              ELSE IF ~open
                THEN [informed EXCEPT
                        !.participants = remove(q2, contributor),
                        !.coord = "error",
                        !.err = "failed to send start contribution message to handler"]
              ELSE [informed EXCEPT
                        !.participants = remove(q2, contributor),
                        !.dispatched = [who |-> contributor,
                                        id |-> q2[contributor].p.id],
                        !.want = wantAfterDispatch]

\* The effect of one iteration on the coordinator's state and channels.
Apply(ev, filter, r, failed) ==
    /\ participants' = r.participants
    /\ want_contribution' = r.want
    /\ coord' = r.coord
    /\ coordErr' = r.err
    /\ start_contribution' =
          IF r.dispatched = NoOne THEN start_contribution
          ELSE Append(start_contribution, r.dispatched)
    /\ last' = [event |-> ev, new |-> filter,
                closed |-> IF ev = "completion" THEN att.elapsedAt ELSE "",
                ranked |-> r.ranked,
                leader |-> IF r.dispatched = NoOne THEN 0 ELSE r.leader,
                notified |-> r.notified, failed |-> failed \cap r.notified,
                wanted |-> r.wanted, dispatched |-> r.dispatched.who,
                sendFound |-> IF r.dispatched = NoOne THEN 0
                             ELSE Len(start_contribution)]
    /\ outstanding' =
          (IF ev = "completion" /\ outstanding > 0 THEN outstanding - 1 ELSE outstanding)
          + (IF r.dispatched = NoOne THEN 0 ELSE 1)
    /\ inflight' =
          IF r.dispatched # NoOne THEN r.dispatched
          ELSE IF ev = "completion" THEN NoOne ELSE inflight

\* Event::NewParticipant(participant, bid)
CoordArrival ==
    /\ coord = "running"
    /\ arrivals < MaxArrivals
    /\ \E a \in Addrs, b \in Bids :
         LET q0 == add(participants, Participant(a, arrivals + 1), b)
         IN  \E alive \in SUBSET DOMAIN q0 :
               \E ranked \in score(prune(q0, alive)) :
                 \E failed \in SUBSET informTargets(ranked, a) :
                   \E r \in {Iterate(q0, want_contribution, a, alive, ranked, failed,
                                     hpc # "ended")} :
                     Apply("arrival", a, r, failed)
    /\ arrivals' = arrivals + 1
    /\ done_contribution' = done_contribution
    /\ UNCHANGED <<handlerVars, storageVars>>

\* Event::ContributionDone.  The record of the attempt this Completion closes
\* is folded into last.closed and att starts afresh.
CoordCompletion ==
    /\ coord = "running"
    /\ done_contribution > 0
    /\ done_contribution' = done_contribution - 1
    /\ \E alive \in SUBSET DOMAIN participants :
         \E ranked \in score(prune(participants, alive)) :
           \E failed \in SUBSET informTargets(ranked, NoAddr) :
             \E r \in {Iterate(participants, TRUE, NoAddr, alive, ranked, failed,
                               hpc # "ended")} :
               Apply("completion", NoAddr, r, failed)
    /\ att' = Started
    /\ UNCHANGED <<arrivals, hpc, cur, hres, storageVars>>

\* Event::ContributionHandlerFinished(why)
CoordHandlerFinished ==
    /\ coord = "running"
    /\ hpc = "ended"
    /\ coord' = onHandlerFinished(hres).coord
    /\ coordErr' = onHandlerFinished(hres).err
    /\ last' = [NoEvent EXCEPT !.event = "finished"]
    /\ UNCHANGED <<participants, want_contribution, start_contribution,
                   done_contribution, arrivals, outstanding, inflight,
                   handlerVars, storageVars>>

\* ------------------------------------------- ContributionHandler::run
\* run as it would be if it looped without signalling
sendNothing(pending) == pending

\* run as it would be if contribute signalled too
sendTwice(pending) == pending + 2

\* done_contribution_tx.send(()): one more () in the completion channel
send(pending) == pending + 1

HandlerFrame == UNCHANGED <<participants, want_contribution, coord, coordErr,
                            arrivals, last, outstanding, inflight>>

\* ContributionHandler::run: start_contribution_rx.recv() yields Some((w, p))
HandlerRecv ==
    /\ hpc = "recv"
    /\ start_contribution # <<>>
    /\ cur' = Head(start_contribution)
    /\ start_contribution' = Tail(start_contribution)
    /\ hpc' = "contribute"
    /\ UNCHANGED <<att, hres, done_contribution, slot>>
    /\ HandlerFrame

\* ContributionHandler::run: start_contribution_rx.recv() yields None, every
\* sender is gone
HandlerChannelClosed ==
    /\ hpc = "recv"
    /\ start_contribution = <<>>
    /\ coord # "running"
    /\ hpc' = "ended"
    /\ hres' = "Ok"
    /\ UNCHANGED <<cur, att, start_contribution, done_contribution, slot>>
    /\ HandlerFrame

\* ContributionHandler::run: self.contribute(who, participant).await? and
\* self.done_contribution_tx.send(()).await?  Every contribution committed
\* advances the slot that current_slot reads.
HandlerContribute ==
    /\ hpc = "contribute"
    /\ \E r \in Runs :
         /\ att' = [r EXCEPT !.confirmed = [k \in DOMAIN r.confirmed |->
                                               slot + r.confirmed[k]]]
         /\ slot' = slot + r.commits
         /\ IF r.res = "Err"
              THEN /\ hpc' = "ended"
                   /\ hres' = r.cause
                   /\ done_contribution' = done_contribution
              ELSE IF coord # "running"
              THEN /\ hpc' = "ended"
                   /\ hres' = "done channel closed"
                   /\ done_contribution' = done_contribution
              ELSE /\ hpc' = "recv"
                   /\ hres' = hres
                   /\ done_contribution' = send(done_contribution)
    /\ cur' = NoOne
    /\ UNCHANGED <<start_contribution>>
    /\ HandlerFrame

\* ----------------------------------------------------------- specification
Init ==
    /\ participants = new
    /\ want_contribution = TRUE
    /\ coord = "running"
    /\ coordErr = ""
    /\ start_contribution = <<>>
    /\ done_contribution = 0
    /\ hpc = "recv"
    /\ cur = NoOne
    /\ hres = ""
    /\ slot = 0
    /\ arrivals = 0
    /\ att = Started
    /\ last = NoEvent
    /\ outstanding = 0
    /\ inflight = NoOne

Next ==
    \/ CoordArrival
    \/ CoordCompletion
    \/ CoordHandlerFinished
    \/ HandlerRecv
    \/ HandlerChannelClosed
    \/ HandlerContribute

Spec == Init /\ [][Next]_vars

\* The merged event stream polls its three sources in turn, so a handler that
\* has ended is eventually observed by Coordinator::run.
FairSpec == Spec /\ WF_vars(CoordHandlerFinished)

\* Event::ContributionDone as the completion channel sees it: the step of
\* CoordCompletion, and its guard, projected on done_contribution.
TakeCompletion ==
    /\ coord = "running"
    /\ done_contribution > 0
    /\ done_contribution' = done_contribution - 1

\* The handler task is scheduled and its collaborators' calls return or the
\* deadline fires; the merged event stream polls each of its sources, so a
\* pending () is eventually taken and the handler's end eventually observed.
LiveSpec ==
    /\ Spec
    /\ WF_vars(HandlerRecv)
    /\ WF_vars(HandlerContribute)
    /\ WF_done_contribution(TakeCompletion)
    /\ WF_vars(CoordHandlerFinished)

\* ---------------------------------------------- the queue's operations alone
\* The ParticipantQueue driven by arbitrary calls of its operations, the last
\* call and the map before it kept in last.
QueueInit ==
    /\ Init

QueueFrame == UNCHANGED <<want_contribution, coord, coordErr, start_contribution,
                          done_contribution, hpc, cur, hres, slot, arrivals, att,
                          outstanding, inflight>>

QueueAdd ==
    /\ \E a \in Addrs, id \in 1..MaxArrivals, b \in Bids :
         /\ participants' = add(participants, Participant(a, id), b)
         /\ last' = [event |-> "add", participant |-> Participant(a, id),
                     bid |-> b, before |-> participants]
    /\ QueueFrame

QueuePrune ==
    /\ \E alive \in SUBSET DOMAIN participants :
         /\ participants' = prune(participants, alive)
         /\ last' = [event |-> "prune", alive |-> alive, before |-> participants]
    /\ QueueFrame

QueueRemove ==
    /\ \E a \in Addrs :
         /\ participants' = remove(participants, a)
         /\ last' = [event |-> "remove", address |-> a, before |-> participants]
    /\ QueueFrame

QueueScore ==
    /\ \E ranked \in score(participants) :
         last' = [event |-> "score", ranked |-> ranked, before |-> participants]
    /\ participants' = participants
    /\ QueueFrame

QueueNext ==
    \/ QueueAdd
    \/ QueuePrune
    \/ QueueRemove
    \/ QueueScore

QueueSpec == QueueInit /\ [][QueueNext]_vars

\* --------------------------------------------------------------- properties
CollaboratorCalls == {"current_crs", "fetch_root", "commit_contribution",
                      "strike", "current_slot"}

\* the handler has closed or abandoned an attempt and not started another
AttemptOver == att # Started /\ hpc # "contribute"

\* C1: at most one contribution attempt is in flight at any instant: the
\* dispatches not yet followed by a processed Completion never exceed one, and
\* the admission channel and the handler together hold at most one participant.
AtMostOneInFlight ==
    /\ outstanding <= 1
    /\ Len(start_contribution) + (IF hpc = "contribute" THEN 1 ELSE 0) <= 1

\* an Arrival was processed and queued while an attempt is in flight
AtMostOneInFlightWitness ==
    /\ outstanding = 1
    /\ hpc = "contribute"
    /\ participants # <<>>
    /\ last.event = "arrival"
    /\ last.dispatched = NoAddr

\* C2: whenever want-contribution is true and the ranking is non-empty, the
\* candidate is still in the queue when it is removed for dispatch: the
\* expectation "the selected contributor exists" never fails.
SelectedContributorExists == coord # "panic"

\* C3: in an iteration triggered by an Arrival no address other than the new
\* one is sent a notification; in an iteration triggered by a Completion every
\* address of the queue after pruning is sent one.
AntiAmplification ==
    /\ last.event = "arrival" => last.notified \subseteq {last.new}
    /\ last.event = "completion" => last.notified = Range(last.ranked)

\* an Arrival was processed while another address was ranked, and only the
\* new address was notified
AntiAmplificationWitness ==
    /\ last.event = "arrival"
    /\ Len(last.ranked) >= 2
    /\ last.notified = {last.new}

\* C4: a candidate that validates and is linked to the parent results in
\* exactly one commit, exactly one confirmation carrying the post-commit slot
\* and no strike, wherever the deadline expires.
SuccessfulPath ==
    (AttemptOver /\ att.good /\ att.res = "Ok")
        => /\ att.commits = 1
           /\ att.confirmed = <<slot>>
           /\ att.strikes = 0

\* C5: when the participant's protocol never resolves, the deadline records
\* exactly one strike, the handler signals Completion, and the coordinator,
\* still running, dispatches the next candidate if the queue holds a live
\* participant.
StrikeOnTimeout ==
    /\ (AttemptOver /\ att.elapsedAt = "contribute" /\ att.res = "Ok")
          => att.strikes = 1 /\ att.commits = 0 /\ done_contribution = 1
    /\ (last.event = "completion" /\ last.closed = "contribute")
          => /\ coord = "running"
             /\ last.ranked # <<>> => last.dispatched = last.ranked[1]

\* C6: an attempt whose candidate fails validation or the parent link, or in
\* which the participant returns no candidate, records exactly one strike and
\* no commit; every outcome without a commit that is not a collaborator's
\* failure records exactly one strike.
StrikeOnInvalid ==
    /\ (AttemptOver /\ att.res = "Ok" /\ ~att.good)
          => att.strikes = 1 /\ att.commits = 0
    /\ (AttemptOver /\ att.commits = 0 /\ att.cause \notin CollaboratorCalls)
          => att.strikes = 1

\* C7: the only outcomes of an attempt that end ContributionHandler::run with
\* an error are failures of the storage and phase collaborators; a failure of
\* the participant's own calls is closed locally.
ParticipantFaultsNotFatal ==
    (hpc = "ended" /\ hres # "Ok") => hres \in CollaboratorCalls

\* C8: once the handler has ended, Coordinator::run eventually ends with the
\* carried error, and no dispatch happens after the handler's end, even if
\* Arrival events are processed first.
FatalPropagation ==
    /\ [](hpc = "ended" /\ coord = "running"
            => <>(coord = "error" /\ coordErr = hres))
    /\ [][hpc = "ended" => /\ start_contribution' = start_contribution
                           /\ outstanding' = outstanding
                           /\ coord' # "panic"]_vars

\* run ended with the error of a failed commit after an Arrival was queued
FatalPropagationWitness ==
    /\ coord = "error"
    /\ coordErr = "commit_contribution"
    /\ att.commits = 0
    /\ \E a \in DOMAIN participants : participants[a].p.id > inflight.id

\* C9 as stated: the queue never holds the address whose attempt is in flight.
QueueNeverHoldsInFlight ==
    inflight # NoOne => inflight.who \notin DOMAIN participants

\* C9, amended: the participant in flight is not in the queue; an entry of its
\* address in the queue is a later connection, added by an Arrival processed
\* after the dispatch.
QueueHoldsInFlightOnlyReadded ==
    /\ (inflight # NoOne /\ inflight.who \in DOMAIN participants)
          => participants[inflight.who].p.id > inflight.id
    /\ last.dispatched # NoAddr => last.dispatched \notin DOMAIN participants

\* the address in flight arrived again and is queued
QueueHoldsInFlightWitness ==
    /\ inflight # NoOne
    /\ hpc = "contribute"
    /\ inflight.who \in DOMAIN participants

\* C10: after add(participant, bid) the queue holds the address once, its
\* entry carries the participant and the bid of this add, and no other entry
\* has changed.
NoDuplicateAdmission ==
    last.event = "add" =>
        LET a == last.participant.address IN
        /\ DOMAIN participants = DOMAIN last.before \cup {a}
        /\ participants[a] = [p |-> last.participant, bid |-> last.bid]
        /\ \A x \in DOMAIN participants \ {a} : participants[x] = last.before[x]
        /\ len(participants) =
              len(last.before) + (IF a \in DOMAIN last.before THEN 0 ELSE 1)

\* an address was added again with another bid and another handle, beside
\* another entry
NoDuplicateAdmissionWitness ==
    /\ last.event = "add"
    /\ last.participant.address \in DOMAIN last.before
    /\ last.before[last.participant.address].bid # last.bid
    /\ last.before[last.participant.address].p # last.participant
    /\ len(participants) >= 2

\* C11: after prune() the queue holds exactly the entries that were present
\* before and pass the liveness check: no entry that fails it remains, and
\* every live entry remains with its participant and its bid unchanged.
PruneCorrectness ==
    last.event = "prune" =>
        /\ DOMAIN participants = {x \in DOMAIN last.before : is_live(x, last.alive)}
        /\ \A x \in DOMAIN participants : participants[x] = last.before[x]

\* a prune dropped a dead entry and kept a live one
PruneCorrectnessWitness ==
    /\ last.event = "prune"
    /\ DOMAIN last.before \ last.alive # {}
    /\ participants # <<>>

\* C12: score() returns every address of the queue exactly once, in an order
\* along which the bids never increase.
ScoreSortedByBid ==
    last.event = "score" =>
        /\ Len(last.ranked) = len(last.before)
        /\ Range(last.ranked) = DOMAIN last.before
        /\ \A i, j \in 1..Len(last.ranked) :
              i < j => bid(last.before, last.ranked[i]) >= bid(last.before, last.ranked[j])

\* score ranked a queue of two entries with different bids
ScoreSortedByBidWitness ==
    /\ last.event = "score"
    /\ Len(last.ranked) >= 2
    /\ bid(last.before, last.ranked[1]) > bid(last.before, last.ranked[2])

DispatchesHeadOfRanking ==
    /\ last.dispatched # NoAddr
          => /\ last.dispatched = last.ranked[1]
             /\ \A x \in DOMAIN participants : bid(participants, x) <= last.leader
    /\ (last.event = "completion" /\ last.ranked # <<>>)
          => last.dispatched = last.ranked[1]

\* C15: the handler signals Completion exactly once for every attempt it
\* closes, by success or by a strike, signals it for nothing else, and
\* receives a pair only when the Completion of the previous one was signalled
\* and taken.
CompletionOncePerAttempt ==
    /\ [][(hpc = "contribute" /\ hpc' # "contribute" /\ att'.res = "Ok")
            => done_contribution' = done_contribution + 1]_vars
    /\ [][done_contribution' > done_contribution
            => /\ hpc = "contribute"
               /\ att'.res = "Ok"
               /\ done_contribution' = done_contribution + 1]_vars
    /\ [][(hpc = "recv" /\ hpc' = "contribute")
            => done_contribution = 0 /\ att = Started]_vars

\* a second pair was received after an attempt closed by a commit, and its
\* attempt closed by a strike
CompletionOncePerAttemptWitness ==
    /\ slot >= 1
    /\ att.res = "Ok"
    /\ att.commits = 0
    /\ att.strikes = 1
    /\ done_contribution = 1

\* C16: once the participant has returned a candidate the attempt is never
\* closed by the timeout path: validation alone decides between one commit
\* without a strike and one strike without a commit.
NoTimeoutAfterCandidate ==
    (AttemptOver /\ att.received)
        => /\ att.elapsedAt = ""
           /\ att.res = "Ok" =>
                 IF att.good THEN att.commits = 1 /\ att.strikes = 0
                 ELSE att.commits = 0 /\ att.strikes = 1

\* C17: a failed notification removes the entry of the address whose send
\* failed and no other entry, and the coordinator keeps running.
NotifyFailureEvictsOnly ==
    (last.event \in {"arrival", "completion"} /\ last.failed # {})
        => /\ DOMAIN participants =
                 Range(last.ranked) \ (last.failed \cup {last.dispatched})
           /\ hpc # "ended" => coord = "running"

\* C18: each channel holds at most one message, the dispatch send finds the
\* admission channel empty and the handler waiting in recv, and the handler's
\* send finds the completion channel empty.
ChannelsNeverFull ==
    /\ [](/\ Len(start_contribution) <= 1
          /\ done_contribution <= 1
          /\ last.dispatched # NoAddr => last.sendFound = 0)
    /\ [][Len(start_contribution') > Len(start_contribution)
            => start_contribution = <<>> /\ hpc = "recv"]_vars
    /\ [][done_contribution' > done_contribution => done_contribution = 0]_vars

\* a Completion was taken and the next participant sent to the handler
ChannelsNeverFullWitness ==
    /\ last.event = "completion"
    /\ last.dispatched # NoAddr
    /\ Len(start_contribution) = 1
    /\ done_contribution = 0

\* C19: whenever the coordinator awaits the next event with want_contribution
\* true the queue is empty, and an Arrival of a live participant processed
\* while want_contribution is true dispatches that participant.
WorkConservation ==
    /\ (coord = "running" /\ want_contribution) => participants = <<>>
    /\ (last.event = "arrival" /\ last.wanted /\ last.ranked # <<>>)
          => last.dispatched = last.new

\* C20: the ceremony never stays stuck with an attempt in flight: a pair
\* dispatched does not stay in the admission channel for ever, and an attempt
\* received does not stay in flight for ever without a Completion event taken
\* by the coordinator (which ends it, and may dispatch the next) or the end of
\* the coordinator.
AttemptsResolve ==
    /\ []<>(start_contribution = <<>>)
    /\ []<>(coord # "running" \/ inflight = NoOne \/ start_contribution # <<>>)

\* the second attempt was taken over by a Completion that dispatched a third
AttemptsResolveWitness ==
    /\ last.event = "completion"
    /\ inflight.id >= 2
    /\ slot + done_contribution >= 1
    /\ hpc = "contribute"

====
